---- MODULE Spec2Model ----
(***************************************************************************)
(* Model of the Fitbit synchronisation of open-humans-data-processing:     *)
(* sources/fitbit.py (fitbit_query, get_fitbit_data, FitbitSource) driven  *)
(* by base_source.py (BaseSource.run).                                     *)
(*                                                                         *)
(* Time is counted in hours since 2019-01-01 00:00.  arrow's ceil() of a   *)
(* period is the last instant of the period; at the resolution of the      *)
(* model that is the last hour of the period.                              *)
(*                                                                         *)
(* A pass runs at one instant: time passes between the passes only, and    *)
(* datetime.now() (CacheItem.request_time) and arrow.get() read the same   *)
(* clock.  The limiter is RespectfulRequester as fitbit.py configures and  *)
(* calls it: a request is performed, and counted in each of its realms,    *)
(* only if every realm has budget.                                         *)
(***************************************************************************)
EXTENDS Integers, Sequences, FiniteSets, TLC

(***************************************************************************)
(* Bounds of the model.                                                    *)
(***************************************************************************)
MaxEvents == 2
MaxPasses == 2
MaxBudget == 1
MaxPages == 3
MaxItems == 2

(***************************************************************************)
(* Program constants (hours).                                              *)
(***************************************************************************)
CACHE_MAX == 168
CACHE_MIN == 24
STORAGE_MIN == 672
COUNTDOWN == 900
GLOBAL_MAX_REQUESTS == 3600
USER_MAX_REQUESTS == 150
SAFETY_THRESHOLD == 5
REALM_TIMESPAN == 1
EXPIRE_AFTER == 720

(***************************************************************************)
(* The calendar, as arrow computes it.                                     *)
(***************************************************************************)
CalYears == 2019..2023
EpochYear == CHOOSE y \in CalYears : \A z \in CalYears : y <= z

IsLeap(y) == (y % 4 = 0 /\ y % 100 # 0) \/ y % 400 = 0

DaysInMonth(y, m) ==
    IF m \in {4, 6, 9, 11} THEN 30
    ELSE IF m = 2 THEN (IF IsLeap(y) THEN 29 ELSE 28)
    ELSE 31

DaysInYear(y) == IF IsLeap(y) THEN 366 ELSE 365

RECURSIVE YearStart(_)
YearStart(y) == IF y = EpochYear THEN 0
                ELSE IF y > EpochYear
                     THEN YearStart(y - 1) + 24 * DaysInYear(y - 1)
                     ELSE YearStart(y + 1) - 24 * DaysInYear(y)

RECURSIVE DaysBefore(_, _)
DaysBefore(y, m) == IF m <= 1 THEN 0
                    ELSE DaysBefore(y, m - 1) + DaysInMonth(y, m - 1)

MonthStart(y, m) == YearStart(y) + 24 * DaysBefore(y, m)

\* arrow.get('YYYY-MM-DD'), at midnight
Date(y, m, d) == MonthStart(y, m) + 24 * (d - 1)
DateTime(y, m, d, h) == Date(y, m, d) + h

\* t.floor('year') and t.floor('month'), as (year) and (year, month)
YearOf(t) == CHOOSE y \in CalYears : YearStart(y) <= t /\ t < YearStart(y + 1)
MonthOf(t) ==
    CHOOSE ym \in {YearOf(t)} \X (1..12) :
        /\ MonthStart(ym[1], ym[2]) <= t
        /\ t < MonthStart(ym[1], ym[2]) + 24 * DaysInMonth(ym[1], ym[2])

\* a month counted from the epoch, to step through Arrow.range('month', ...)
MonthIndex(y, m) == 12 * (y - EpochYear) + (m - 1)
IndexYear(i) == EpochYear + (i \div 12)
IndexMonth(i) == (i % 12) + 1

\* year_date.ceil('year') and month_date.ceil('month')
CeilYear(y) == YearStart(y + 1) - 1
CeilMonth(y, m) == MonthStart(y, m) + 24 * DaysInMonth(y, m) - 1

\* Arrow.range('year', start.floor('year'), now): period keys <<y, 0>>
YearRange(start, t) ==
    [i \in 1..(IF t < YearStart(YearOf(start)) THEN 0
               ELSE YearOf(t) - YearOf(start) + 1) |->
        <<YearOf(start) + i - 1, 0>>]

\* Arrow.range('month', start.floor('month'), now): period keys <<y, m>>
MonthRange(start, t) ==
    LET s == MonthIndex(MonthOf(start)[1], MonthOf(start)[2])
        e == MonthIndex(MonthOf(t)[1], MonthOf(t)[2])
    IN  [i \in 1..(IF e < s THEN 0 ELSE e - s + 1) |->
            <<IndexYear(s + i - 1), IndexMonth(s + i - 1)>>]

(***************************************************************************)
(* The resource catalog (fitbit_urls), in the order of the source.  The    *)
(* model keeps one entry of each granularity used by get_fitbit_data, a    *)
(* second yearly entry, and one 'day' entry (never iterated).              *)
(***************************************************************************)
fitbit_urls ==
    << [name |-> "activities-overview", period |-> "none"],
       [name |-> "heart", period |-> "month"],
       [name |-> "tracker-steps", period |-> "year"],
       [name |-> "weight", period |-> "year"],
       [name |-> "intraday-heart", period |-> "day"] >>

\* the table the running program iterates: fitbit_urls, or the table of a
\* scenario that is run with another catalog
VARIABLE catalog

\* [u for u in fitbit_urls if u['period'] == p], order kept
UrlsOf(p) == SelectSeq(catalog, LAMBDA u : u.period = p)

UrlNames(p) == {UrlsOf(p)[i].name : i \in 1..Len(UrlsOf(p))}

(***************************************************************************)
(* The remote service: the Fitbit accounts the member may have connected,  *)
(* with their memberSince dates, and the data the API returns.  The data   *)
(* of a period may change (rev) as long as the period has not ended.       *)
(***************************************************************************)
Accounts == {"A", "B"}

\* the account, the catalog and the time of the scenario of one yearly
\* resource: a member since 2019-03-01 synchronised on 2021-06-15
ScenarioAccount == "S"
ScenarioUrls == << [name |-> "tracker-steps", period |-> "year"] >>
ScenarioNow == DateTime(2021, 6, 15, 10)
ScenarioSteps == {1, 2}

\* query_result['user']['memberSince'] of each account
MemberSince == [a \in Accounts \cup {ScenarioAccount} |->
                  IF a = "A" THEN Date(2020, 11, 20)
                  ELSE IF a = "B" THEN Date(2020, 12, 5)
                  ELSE Date(2019, 3, 1)]

OhId == "oh1"
InitNow == DateTime(2021, 1, 1, 23)
TickSteps == {2, 8 * 24, 31 * 24}

NoDate == -1
NoPeriod == <<0, 0>>

\* the end of a period key (year_date.ceil('year'), month_date.ceil('month'))
PeriodCeil(pk) == IF pk[2] = 0 THEN CeilYear(pk[1]) ELSE CeilMonth(pk[1], pk[2])

\* what the API answers for one resource of one account at time t
RemotePayload(a, name, pk, t, r) ==
    [acct |-> a, name |-> name, pk |-> pk,
     rev |-> IF pk # NoPeriod /\ t > PeriodCeil(pk) THEN 0 ELSE r,
     errors |-> FALSE]

ErrorPayload(a, name, pk) ==
    [acct |-> a, name |-> name, pk |-> pk, rev |-> 0, errors |-> TRUE]

\* the HTTP responses the remote may give to a request
Responses(a, name, pk, t, r) ==
    { [status |-> 200, json |-> TRUE, body |-> RemotePayload(a, name, pk, t, r)],
      [status |-> 429, json |-> TRUE, body |-> ErrorPayload(a, name, pk)],
      [status |-> 504, json |-> FALSE, body |-> ErrorPayload(a, name, pk)],
      [status |-> 400, json |-> TRUE, body |-> ErrorPayload(a, name, pk)],
      [status |-> 500, json |-> FALSE, body |-> ErrorPayload(a, name, pk)] }

IsFault(resp) == resp.status # 200

(***************************************************************************)
(* State.                                                                  *)
(***************************************************************************)
VARIABLES
    now,          \* the clock (arrow.get(), datetime.now())
    acct,         \* the Fitbit account the member's token resolves to
    rev,          \* revision of the remote data of the periods still open
    used,         \* requests counted in the current window, per realm
    cache,        \* the CacheItem table
    files,        \* fitbit-data.json as stored at Open Humans
    archived,     \* the version of the file archived by the last completed run
    phase,        \* position of the running pass
    ui,           \* index of the url within the urls of the phase
    periods,      \* periods of that url still to visit (the head is next)
    fitbit_data,  \* the dict get_fitbit_data fills
    user_id,      \* encodedId resolved by the profile query
    start_date,   \* memberSince resolved by the profile query
    result,       \* what create_files returned (or raised)
    outfile,      \* the temporary file create_files writes
    passlog,      \* history: the queries of the current pass, in order
    lastFetch,    \* history: time of the last successful remote fetch per key
    preSusp,      \* history: closed partitions fetched by suspended passes
    passFetched,  \* history: closed partitions fetched remotely by this pass
    quiet,        \* history: nothing changed since the last completed pass
    rerun,        \* history: the pass started, and ran, with quiet true
    loaded,       \* history: how load_existing_fitbit_data ended in this pass
    passes, events   \* counters that bound the model

\* the syncs of the other members, which share the CacheItem table and the
\* global realm of the limiter
VARIABLES
    peer          \* history: the cache entries a sync of another member
                  \* wrote, and those it was served

\* the Moves sync (sources/moves.py), which shares the clock and the
\* CacheItem table
VARIABLES
    current_year,     \* get_full_storyline: the week the loop is at
    current_week,
    in_user_range,    \* get_full_storyline: the loop condition
    all_data,         \* full_storyline_result['all_data']
    moves_pc,         \* "idle", or "loop" while get_full_storyline runs
    return_status,    \* kwargs['return_status'] of the running create_datafiles
    moves_result,     \* what create_datafiles returned
    moves_file,       \* moves-storyline-data.json as stored
    moves_log         \* history: the calls of moves_query of the pass

movesVars == <<current_year, current_week, in_user_range, all_data, moves_pc,
               return_status, moves_result, moves_file, moves_log>>

\* RunKeeper's get_items (sources/runkeeper.py, data_retrieval/runkeeper.py)
VARIABLES
    rk_pages,     \* the remote: the number of items of each page of the chain
    rk_size,      \* the remote: the 'size' the pages report
    rk_path,      \* the page get_items is called with
    rk_out        \* what the call returned or raised

runkeeperVars == <<rk_pages, rk_size, rk_path, rk_out>>

\* the drivers of FitbitSource: BaseSource.run, submitted again by the task
\* queue after a countdown, and FitbitSource.run_cli
VARIABLES
    driver,       \* "run" or "run_cli"
    local,        \* self.local
    cli_pc,       \* position of the driver
    temp_files,   \* self.temp_files
    temp_dir,     \* the files in self.temp_directory
    data_files,   \* self.data_files
    move_i,       \* move_files: index of the entry of temp_files it is at
    oh_files,     \* the files of the member listed at Open Humans
    ops           \* history: the calls made by the driver, in order

driverVars == <<driver, local, cli_pc, temp_files, temp_dir, data_files,
                move_i, oh_files, ops>>

\* history: when the payloads of the data being merged (cur) and of the
\* stored output (stored) were obtained from the remote, and when the stored
\* output was produced (at)
VARIABLE prov

\* the state no step of the member's Fitbit pass touches
others == <<peer, movesVars, runkeeperVars, driverVars>>

vars == <<catalog, now, acct, rev, used, cache, files, archived, phase, ui, periods,
          fitbit_data, user_id, start_date, result, outfile, passlog,
          lastFetch, preSusp, passFetched, quiet, rerun, loaded,
          passes, events, prov, others>>

\* the state of the member's own sync: all but the clock, the limiter, the
\* cache table and the counter of events
syncVars == <<catalog, acct, files, archived, phase, ui, periods,
              fitbit_data, user_id, start_date, result, outfile, passlog,
              lastFetch, preSusp, passFetched, quiet, rerun, loaded, passes,
              prov>>

Realms == {"fitbit", "fitbit-oh1"}

\* requests.register_realm(...): the maximum per realm
RealmMax(r) == IF r = "fitbit" THEN GLOBAL_MAX_REQUESTS ELSE USER_MAX_REQUESTS

\* a window in which realm q has budget for k more requests and the other
\* realm is empty
Window(q, k) ==
    [r \in Realms |-> IF r = q THEN RealmMax(q) - SAFETY_THRESHOLD - k ELSE 0]

\* the counts a window may start from: both realms empty, the global realm
\* at its limit (it carries the requests of the other members' syncs), or
\* the member's realm near its limit (the member's other runs in the hour)
FreshWindows ==
    { [r \in Realms |-> 0] } \cup
    { Window("fitbit", 0) } \cup
    { Window("fitbit-oh1", k) : k \in 0..MaxBudget }

NoProfile == [encodedId |-> "", memberSince |-> NoDate, rev |-> 0]
EmptyData == [profile |-> NoProfile, data |-> << >>]
NoFile == [exists |-> FALSE, profile |-> NoProfile, data |-> << >>]
NoResult == [kind |-> "none", countdown |-> 0]

NoProv == [stored |-> << >>, at |-> NoDate, cur |-> << >>]
NoPeer == [wrote |-> {}, served |-> {}]

\* kwargs without 'return_status'; create_datafiles not yet returned
NoStatus == [countdown |-> 0]
NoMovesResult == [kind |-> "none", countdown |-> 0]
NoMovesFile == [exists |-> FALSE, data |-> << >>]

\* no Moves sync has run
MovesIdle ==
    /\ current_year = 0
    /\ current_week = 0
    /\ in_user_range = FALSE
    /\ all_data = << >>
    /\ moves_pc = "idle"
    /\ return_status = NoStatus
    /\ moves_result = NoMovesResult
    /\ moves_file = NoMovesFile
    /\ moves_log = << >>

NoItems == [items |-> << >>, requested |-> << >>, raised |-> FALSE]

\* get_items has not been called
RunKeeperIdle ==
    /\ rk_pages = << >>
    /\ rk_size = 0
    /\ rk_path = 0
    /\ rk_out = NoItems

\* no driver is observed
DriverIdle ==
    /\ driver = "run"
    /\ local = FALSE
    /\ cli_pc = "idle"
    /\ temp_files = << >>
    /\ temp_dir = {}
    /\ data_files = << >>
    /\ move_i = 0
    /\ oh_files = {}
    /\ ops = << >>

\* the other programs have not run
OthersIdle == MovesIdle /\ RunKeeperIdle /\ DriverIdle

\* nothing stored, nothing cached, no pass running
Fresh ==
    /\ peer = NoPeer
    /\ rev = 1
    /\ cache = {}
    /\ files = NoFile
    /\ archived = NoFile
    /\ phase = "idle"
    /\ ui = 0
    /\ periods = << >>
    /\ fitbit_data = EmptyData
    /\ user_id = ""
    /\ start_date = NoDate
    /\ result = NoResult
    /\ outfile = NoFile
    /\ passlog = << >>
    /\ lastFetch = << >>
    /\ preSusp = {}
    /\ passFetched = {}
    /\ quiet = FALSE
    /\ rerun = FALSE
    /\ loaded = "none"
    /\ passes = 0
    /\ events = 0
    /\ prov = NoProv

Init ==
    /\ catalog = fitbit_urls
    /\ now = InitNow
    /\ acct = "A"
    /\ used \in FreshWindows
    /\ Fresh
    /\ OthersIdle

\* the scenario: its catalog and account, a limiter that admits two requests
ScenarioInit ==
    /\ catalog = ScenarioUrls
    /\ now = ScenarioNow
    /\ acct = ScenarioAccount
    /\ used \in { Window(q, 2) : q \in Realms }
    /\ Fresh
    /\ OthersIdle

(***************************************************************************)
(* fitbit_query: the cache, the limiter and the remote request.            *)
(***************************************************************************)
\* variant: no path embeds the user id ('/-/...')
PathUser_Dash(name, uid) == "-"

\* the user id a path embeds ('/-/profile.json' embeds none)
PathUser(name, uid) == IF name = "profile" THEN "-" ELSE uid

\* variant: the key is the url alone
DataKey_NoOwner(name, uid, pk, oh) ==
    [name |-> name, uid |-> uid, pk |-> pk, oh |-> OhId]

\* data_key = '{}-{}'.format(data_url, open_humans_id), the path formatted
\* with its parameters (user id, start and end date of the period)
DataKey(name, uid, pk, oh) == [name |-> name, uid |-> uid, pk |-> pk, oh |-> oh]

Entries(key) == {e \in cache : e.key = key}

\* variant: the entries are ordered by request_time ascending
Newest_Oldest(key) ==
    CHOOSE e \in Entries(key) :
        \A f \in Entries(key) : f.request_time >= e.request_time

\* CacheItem.query.filter_by(key=data_key)
\*          .order_by(CacheItem.request_time.desc()).first()
Newest(key) ==
    CHOOSE e \in Entries(key) :
        \A f \in Entries(key) : f.request_time <= e.request_time

\* variant: the age of the period is computed with its operands exchanged
CacheUsable_Swapped(cache_time, target_date, t) ==
    /\ t - cache_time <= CACHE_MAX
    /\ target_date # NoDate
    /\ target_date - cache_time > CACHE_MIN

\* variant: the age of the entry is not looked at
CacheUsable_NoMaxAge(cache_time, target_date, t) ==
    /\ target_date # NoDate
    /\ cache_time - target_date > CACHE_MIN

\* the test under which fitbit_query returns the cached response
CacheUsable(cache_time, target_date, t) ==
    /\ t - cache_time <= CACHE_MAX
    /\ target_date # NoDate
    /\ cache_time - target_date > CACHE_MIN

\* variant: nothing is stored
ShouldCache_Never(target_date, t) == FALSE

\* variant: every response with a target date is stored, however recent
ShouldCache_NoMin(target_date, t) == target_date # NoDate

\* the test under which fitbit_query stores the response it fetched
ShouldCache(target_date, t) ==
    target_date # NoDate /\ t - target_date > CACHE_MIN

Hit(key, target_date) ==
    /\ Entries(key) # {}
    /\ CacheUsable(Newest(key).request_time, target_date, now)

\* variant: the entry stores something other than the response it was given
CacheItem_WrongBody(key, response, t) ==
    [key |-> key,
     response |-> [response EXCEPT !.acct = "", !.name = ""],
     request_time |-> t]

\* CacheItem(data_key, query_result): request_time = datetime.now()
CacheItem(key, response, t) ==
    [key |-> key, response |-> response, request_time |-> t]

\* variant: only the global realm is asked
LimiterAllows_GlobalOnly(u) == u["fitbit"] < RealmMax("fitbit") - SAFETY_THRESHOLD

\* RespectfulRequester: a request is performed only if every realm has
\* fewer requests in its window than its maximum less the safety threshold;
\* a performed request is counted in every realm
LimiterAllows(u) == \A r \in Realms : u[r] < RealmMax(r) - SAFETY_THRESHOLD
Consume(u) == [r \in Realms |-> u[r] + 1]

\* status codes fitbit_query turns into RateLimitException
RateLimitStatus(status) == status \in {429, 504}

\* 'errors' in query_result and 'success' in query_result
\*     and not query_result['success']
IsErrorPayload(body) == body.errors

(***************************************************************************)
(* The persisted output and FitbitSource.load_existing_fitbit_data.        *)
(***************************************************************************)
\* the period keys stored under one resource name
KeysOf(data, name) == {k[2] : k \in {j \in DOMAIN data : j[1] = name}}

PeriodStart(pk) == IF pk[2] = 0 THEN YearStart(pk[1]) ELSE MonthStart(pk[1], pk[2])

MaxOf(S) == CHOOSE x \in S : \A y \in S : y <= x
MinOf(S) == CHOOSE x \in S : \A y \in S : x <= y

\* FitbitSource._guess_storage_date
GuessStorageDate(data) ==
    LET ms == {i \in 1..Len(UrlsOf("month")) :
                 KeysOf(data, UrlsOf("month")[i].name) # {}}
        ys == {i \in 1..Len(UrlsOf("year")) :
                 KeysOf(data, UrlsOf("year")[i].name) # {}}
    IN  IF ms # {}
        THEN MaxOf({PeriodStart(pk) :
                      pk \in KeysOf(data, UrlsOf("month")[MinOf(ms)].name)})
        ELSE IF ys # {}
        THEN MaxOf({PeriodStart(pk) :
                      pk \in KeysOf(data, UrlsOf("year")[MinOf(ys)].name)})
        ELSE Date(2000, 1, 1)

\* variant: every stored period is copied
TooRecent_Never(storage_date, pk) == FALSE

\* the test under which a stored period is not copied
\* (storage_date - period.ceil() < STORAGE_MIN)
TooRecent(storage_date, pk) == storage_date - PeriodCeil(pk) < STORAGE_MIN

\* FitbitSource.load_existing_fitbit_data
LoadExisting(f) ==
    IF ~f.exists THEN EmptyData
    ELSE LET g == GuessStorageDate(f.data)
             keep == {k \in DOMAIN f.data :
                        /\ k[1] \in UrlNames("year") \cup UrlNames("month")
                        /\ ~TooRecent(g, k[2])}
         IN  [profile |-> f.profile, data |-> [k \in keep |-> f.data[k]]]

(***************************************************************************)
(* get_fitbit_data: the position of the pass and the merge.                *)
(***************************************************************************)
QueryPhases == {"profile", "none", "year", "month"}

CurName == IF phase \in {"none", "year", "month"}
           THEN UrlsOf(phase)[ui].name ELSE "profile"

CurPeriod == IF phase \in {"year", "month"} THEN Head(periods) ELSE NoPeriod

\* variant: the resources without period are given the end of last year
TargetDate_NoneAsYear(ph, pk, t) ==
    IF ph = "profile" THEN NoDate
    ELSE IF ph = "none" THEN CeilYear(YearOf(t) - 1)
    ELSE PeriodCeil(pk)

\* the target_date argument of each call of fitbit_query
TargetDate(ph, pk, t) ==
    IF ph = "profile" THEN NoDate
    ELSE IF ph = "none" THEN t
    ELSE PeriodCeil(pk)

CurTarget == TargetDate(phase, CurPeriod, now)

CurKey == DataKey(CurName, PathUser(CurName, user_id), CurPeriod, OhId)

\* the periods Arrow.range gives for the urls of a phase
RangeOf(ph, start, t) ==
    IF ph = "year" THEN YearRange(start, t)
    ELSE IF ph = "month" THEN MonthRange(start, t)
    ELSE << NoPeriod >>

\* variant: the monthly resources are visited before the yearly ones
NextPhase_MonthFirst(ph) ==
    IF ph = "profile" THEN "none"
    ELSE IF ph = "none" THEN "month"
    ELSE IF ph = "month" THEN "year"
    ELSE "write"

\* the loops of get_fitbit_data, in the order of the source
NextPhase(ph) ==
    IF ph = "profile" THEN "none"
    ELSE IF ph = "none" THEN "year"
    ELSE IF ph = "year" THEN "month"
    ELSE "write"

\* entering the i-th url of a phase: its first period, or the next url or
\* loop when there is none
RECURSIVE EnterUrl(_, _, _, _)
EnterUrl(ph, i, start, t) ==
    IF ph = "write" THEN [phase |-> "write", ui |-> 0, periods |-> << >>]
    ELSE IF i > Len(UrlsOf(ph)) THEN EnterUrl(NextPhase(ph), 1, start, t)
    ELSE IF RangeOf(ph, start, t) = << >> THEN EnterUrl(ph, i + 1, start, t)
    ELSE [phase |-> ph, ui |-> i, periods |-> RangeOf(ph, start, t)]

\* the position after one iteration of the current loop
NextPos(ph, i, ps, start, t) ==
    IF ph = "profile" THEN EnterUrl("none", 1, start, t)
    ELSE IF Len(ps) > 1 THEN [phase |-> ph, ui |-> i, periods |-> Tail(ps)]
    ELSE EnterUrl(ph, i + 1, start, t)

\* variant: the stored data is kept when the account id has changed
ResetIfChanged_Never(fd, uid) == fd

\* "Reset data if user account ID has changed."
ResetIfChanged(fd, uid) ==
    IF fd.profile # NoProfile /\ fd.profile.encodedId # uid
    THEN EmptyData ELSE fd

\* variant: the result replaces the periods of its resource
\* (fitbit_data[name] = {period: result})
Merge_Overwrite(fd, ph, name, pk, value) ==
    IF ph = "profile"
    THEN [ResetIfChanged(fd, value.acct) EXCEPT
            !.profile = [encodedId |-> value.acct,
                         memberSince |-> MemberSince[value.acct],
                         rev |-> value.rev]]
    ELSE [fd EXCEPT !.data =
            (<<name, pk>> :> value) @@
            [k \in {j \in DOMAIN fd.data : j[1] # name} |-> fd.data[k]]]

\* what get_fitbit_data does with the result of a query
Merge(fd, ph, name, pk, value) ==
    IF ph = "profile"
    THEN [ResetIfChanged(fd, value.acct) EXCEPT
            !.profile = [encodedId |-> value.acct,
                         memberSince |-> MemberSince[value.acct],
                         rev |-> value.rev]]
    ELSE [fd EXCEPT !.data = (<<name, pk>> :> value) @@ @]

\* user_id and start_date after a query: the profile query sets them
UserAfter(ph, value) == IF ph = "profile" THEN value.acct ELSE user_id
StartAfter(ph, value) ==
    IF ph = "profile" THEN MemberSince[value.acct] ELSE start_date

(***************************************************************************)
(* History kept for the properties.                                        *)
(***************************************************************************)
\* the history after the result of the current query, obtained from the
\* remote at time t, was merged into fd
Obtained(fd, t) ==
    [prov EXCEPT !.cur =
        [k \in DOMAIN fd.data |->
            IF phase # "profile" /\ k = <<CurName, CurPeriod>> THEN t
            ELSE prov.cur[k]]]

NoValue == [acct |-> "", name |-> "", pk |-> NoPeriod, rev |-> 0, errors |-> FALSE]

PrevFetch(key) == IF key \in DOMAIN lastFetch THEN lastFetch[key] ELSE NoDate

LogRec(out, value, status, ctime) ==
    [key |-> CurKey, phase |-> phase, target |-> CurTarget, t |-> now,
     out |-> out, value |-> value, status |-> status,
     prev |-> PrevFetch(CurKey), ctime |-> ctime, used |-> used]

\* a calendar partition whose period ended more than CACHE_MIN before t
Closed(target_date, t) == target_date # NoDate /\ t - target_date > CACHE_MIN

(***************************************************************************)
(* What create_files makes of the ways get_fitbit_data can end.            *)
(***************************************************************************)
\* variant: RateLimitException is not caught
RateLimitResult_Raised == [kind |-> "raised", countdown |-> 0]

\* except RateLimitException: return {'countdown': 900}
RateLimitResult == [kind |-> "suspended", countdown |-> COUNTDOWN]

\* any other exception is not caught
RaisedResult == [kind |-> "raised", countdown |-> 0]

\* create_files returns None once the file is written
MergedResult == [kind |-> "merged", countdown |-> 0]

\* variant: the stored files are archived although create_files returned a
\* countdown (the order of FitbitSource.run_cli)
StoredAfter_ArchiveOnCountdown(res, stored, written) ==
    IF res.kind = "merged" THEN written
    ELSE IF res.kind = "suspended" THEN NoFile
    ELSE stored

\* BaseSource.run after create_files: a result (the countdown) is returned at
\* once and an exception leaves run; otherwise move_files stores the file
\* written, archive_files archives the files stored before and
\* update_open_humans reports the new one
StoredAfter(res, stored, written) ==
    IF res.kind = "merged" THEN written ELSE stored

\* the version archive_files has archived last
ArchivedAfter(res, stored, previous) ==
    IF res.kind = "merged" THEN stored ELSE previous

\* variant: the exception is swallowed inside the loop, which goes on
Unwind_Continue(ph) == ph

\* where an exception raised by fitbit_query leaves get_fitbit_data: no loop
\* of it has a handler, the pass is over
Unwind(ph) == "idle"

(***************************************************************************)
(* The actions of a pass (BaseSource.run calling create_files).            *)
(***************************************************************************)
\* the ways load_existing_fitbit_data can end: it returns the stored data, it
\* raises AttributeError, or it raises another exception (the request or the
\* download fails, the file is no JSON, a resource is missing from it)
LoadOutcomes == {"ok", "attr", "error"}

\* try: stored_data = self.load_existing_fitbit_data()
\* except AttributeError: stored_data = defaultdict(dict)
StoredData(load, f) == IF load = "attr" THEN EmptyData ELSE LoadExisting(f)

\* create_files up to the first query: it loads the stored output; an
\* exception of the load other than AttributeError leaves create_files
Begin(load) ==
    /\ phase = "idle"
    /\ load # "ok" => events < MaxEvents
    /\ events' = IF load = "ok" THEN events ELSE events + 1
    /\ loaded' = load
    /\ IF load = "error"
       THEN /\ phase' = "idle"
            /\ ui' = 0
            /\ periods' = << >>
            /\ fitbit_data' = EmptyData
            /\ result' = RaisedResult
       ELSE /\ phase' = "profile"
            /\ ui' = 1
            /\ periods' = << NoPeriod >>
            /\ fitbit_data' = StoredData(load, files)
            /\ result' = NoResult
    /\ user_id' = ""
    /\ start_date' = NoDate
    /\ outfile' = NoFile
    /\ passlog' = << >>
    /\ passFetched' = {}
    /\ preSusp' = IF result.kind = "merged" THEN {} ELSE preSusp
    /\ rerun' = (quiet /\ load = "ok")
    /\ prov' = [prov EXCEPT !.cur = [k \in DOMAIN fitbit_data'.data |->
                                      prov.stored[k]]]
    /\ UNCHANGED <<others, catalog, now, acct, rev, used, cache, files, archived,
                   lastFetch, quiet>>

\* a task runs BaseSource.run
StartPass(load) ==
    /\ passes < MaxPasses
    /\ passes' = passes + 1
    /\ Begin(load)

\* the sync is submitted again as long as create_files has returned a
\* countdown (the loop of run_cli: sleep, then create_files again)
Resubmit ==
    /\ result.kind \in {"none", "suspended"}
    /\ passes' = IF passes < MaxPasses THEN passes + 1 ELSE passes
    /\ Begin("ok")

\* the query returned value: merge it and move to the next iteration
Continue(value) ==
    LET uid == UserAfter(phase, value)
        sd == StartAfter(phase, value)
        pos == NextPos(phase, ui, periods, sd, now)
    IN  /\ fitbit_data' = Merge(fitbit_data, phase, CurName, CurPeriod, value)
        /\ user_id' = uid
        /\ start_date' = sd
        /\ phase' = pos.phase
        /\ ui' = pos.ui
        /\ periods' = pos.periods

\* the pass ends without a file
EndPass(res, ph) ==
    /\ result' = res
    /\ phase' = ph
    /\ files' = StoredAfter(res, files, outfile)
    /\ archived' = ArchivedAfter(res, files, archived)
    /\ IF ph = "idle"
       THEN /\ ui' = 0
            /\ periods' = << >>
            /\ fitbit_data' = EmptyData
            /\ user_id' = ""
            /\ start_date' = NoDate
       ELSE UNCHANGED <<ui, periods, fitbit_data, user_id, start_date>>
    /\ prov' = IF ph = "idle" THEN [prov EXCEPT !.cur = << >>] ELSE prov

InLoop == phase \in {"year", "month"}
Present == InLoop /\ <<CurName, CurPeriod>> \in DOMAIN fitbit_data.data

\* "Skip retrieval": the period is in the data already
SkipPeriod ==
    /\ Present
    /\ LET pos == NextPos(phase, ui, periods, start_date, now)
       IN  /\ phase' = pos.phase
           /\ ui' = pos.ui
           /\ periods' = pos.periods
    /\ passlog' = Append(passlog, LogRec("skip", NoValue, 0, NoDate))
    /\ UNCHANGED <<others, prov, catalog, loaded, now, acct, rev, used, cache, files, archived, fitbit_data,
                   user_id, start_date, result, outfile, lastFetch, preSusp,
                   passFetched, quiet, rerun, passes, events>>

Querying == phase \in QueryPhases /\ ~Present

\* fitbit_query returns the cached response
QueryCached ==
    /\ Querying
    /\ Hit(CurKey, CurTarget)
    /\ Continue(Newest(CurKey).response)
    /\ prov' = Obtained(fitbit_data', Newest(CurKey).request_time)
    /\ passlog' = Append(passlog, LogRec("cached", Newest(CurKey).response, 0,
                                         Newest(CurKey).request_time))
    /\ UNCHANGED <<others, catalog, loaded, now, acct, rev, used, cache, files, archived, result,
                   outfile, lastFetch, preSusp, passFetched, quiet, rerun,
                   passes, events>>

\* requests-respectful refuses the request: RateLimitException
QueryRefused ==
    /\ Querying
    /\ ~Hit(CurKey, CurTarget)
    /\ ~LimiterAllows(used)
    /\ EndPass(RateLimitResult, Unwind(phase))
    /\ passlog' = Append(passlog, LogRec("refused", NoValue, 0, NoDate))
    /\ preSusp' = preSusp \cup passFetched
    /\ UNCHANGED <<others, catalog, loaded, now, acct, rev, used, cache, outfile,
                   lastFetch, passFetched, quiet, rerun,
                   passes, events>>

\* the request is sent and the remote answers 429 or 504: RateLimitException
QueryRateLimited(resp) ==
    /\ Querying
    /\ ~Hit(CurKey, CurTarget)
    /\ LimiterAllows(used)
    /\ RateLimitStatus(resp.status)
    /\ events < MaxEvents
    /\ events' = events + 1
    /\ used' = Consume(used)
    /\ EndPass(RateLimitResult, Unwind(phase))
    /\ passlog' = Append(passlog, LogRec("limited", NoValue, resp.status, NoDate))
    /\ preSusp' = preSusp \cup passFetched
    /\ UNCHANGED <<others, catalog, loaded, now, acct, rev, cache, outfile,
                   lastFetch, passFetched, quiet, rerun,
                   passes>>

\* the request is sent and the answer is no JSON, or an error payload: the
\* exception leaves create_files
QueryFailed(resp) ==
    /\ Querying
    /\ ~Hit(CurKey, CurTarget)
    /\ LimiterAllows(used)
    /\ ~RateLimitStatus(resp.status)
    /\ ~resp.json \/ IsErrorPayload(resp.body)
    /\ events < MaxEvents
    /\ events' = events + 1
    /\ used' = Consume(used)
    /\ EndPass(RaisedResult, Unwind(phase))
    /\ passlog' = Append(passlog, LogRec("failed", NoValue, resp.status, NoDate))
    /\ UNCHANGED <<others, catalog, loaded, now, acct, rev, cache, outfile,
                   lastFetch, preSusp, passFetched, quiet, rerun,
                   passes>>

\* the request is sent and answered: the response is cached if its target
\* date is old enough, and returned
QueryFetched(resp) ==
    /\ Querying
    /\ ~Hit(CurKey, CurTarget)
    /\ LimiterAllows(used)
    /\ ~RateLimitStatus(resp.status)
    /\ resp.json /\ ~IsErrorPayload(resp.body)
    /\ IsFault(resp) => events < MaxEvents
    /\ events' = IF IsFault(resp) THEN events + 1 ELSE events
    /\ used' = Consume(used)
    /\ cache' = IF ShouldCache(CurTarget, now)
                THEN cache \cup {CacheItem(CurKey, resp.body, now)}
                ELSE cache
    /\ Continue(resp.body)
    /\ prov' = Obtained(fitbit_data', now)
    /\ passlog' = Append(passlog, LogRec("fetched", resp.body, resp.status, NoDate))
    /\ lastFetch' = (CurKey :> now) @@ lastFetch
    /\ passFetched' = IF InLoop /\ Closed(CurTarget, now)
                      THEN passFetched \cup {<<CurKey, resp.body>>}
                      ELSE passFetched
    /\ UNCHANGED <<others, catalog, loaded, now, acct, rev, files, archived, result, outfile,
                   preSusp, quiet, rerun, passes>>

\* the cache table fails: the query for the newest entry raises (stage
\* "read", before any request), or the commit of the new entry raises (stage
\* "write", after the request was answered); the exception leaves create_files
QueryCacheError(stage, resp) ==
    /\ Querying
    /\ events < MaxEvents
    /\ events' = events + 1
    /\ IF stage = "read"
       THEN used' = used
       ELSE /\ ~Hit(CurKey, CurTarget)
            /\ LimiterAllows(used)
            /\ resp.status = 200
            /\ resp.json /\ ~IsErrorPayload(resp.body)
            /\ ShouldCache(CurTarget, now)
            /\ used' = Consume(used)
    /\ EndPass(RaisedResult, Unwind(phase))
    /\ passlog' = Append(passlog,
                         LogRec(IF stage = "read" THEN "cachefail" ELSE "storefail",
                                NoValue, IF stage = "read" THEN 0 ELSE resp.status,
                                NoDate))
    /\ UNCHANGED <<others, catalog, loaded, now, acct, rev, cache, outfile,
                   lastFetch, preSusp, passFetched, quiet, rerun, passes>>

\* get_fitbit_data returned: create_files writes fitbit-data.json and run()
\* moves it to storage, archives the previous files and reports the new one
Complete ==
    /\ phase = "write"
    /\ outfile' = [exists |-> TRUE, profile |-> fitbit_data.profile,
                   data |-> fitbit_data.data]
    /\ files' = StoredAfter(MergedResult, files, outfile')
    /\ archived' = ArchivedAfter(MergedResult, files, archived)
    /\ result' = MergedResult
    /\ phase' = "idle"
    /\ ui' = 0
    /\ periods' = << >>
    /\ fitbit_data' = EmptyData
    /\ user_id' = ""
    /\ start_date' = NoDate
    /\ quiet' = TRUE
    /\ prov' = [stored |-> prov.cur, at |-> now, cur |-> << >>]
    /\ UNCHANGED <<others, catalog, loaded, now, acct, rev, used, cache, passlog, lastFetch, preSusp,
                   passFetched, rerun, passes, events>>

(***************************************************************************)
(* The environment.                                                        *)
(***************************************************************************)
\* time passes between two passes; the windows of the limiter roll over
Tick(d) ==
    /\ phase = "idle"
    /\ events < MaxEvents
    /\ events' = events + 1
    /\ now' = now + d
    /\ d >= REALM_TIMESPAN
    /\ used' \in FreshWindows
    /\ quiet' = FALSE
    /\ UNCHANGED <<others, prov, catalog, loaded, acct, rev, cache, files, archived, phase, ui,
                   periods, fitbit_data, user_id, start_date, result, outfile,
                   passlog, lastFetch, preSusp, passFetched, rerun, passes>>

\* the member connects another Fitbit account
SwitchAccount ==
    /\ phase = "idle"
    /\ events < MaxEvents
    /\ events' = events + 1
    /\ acct' \in Accounts \ {acct}
    /\ quiet' = FALSE
    /\ UNCHANGED <<others, prov, catalog, loaded, now, rev, used, cache, files, archived, phase, ui, periods,
                   fitbit_data, user_id, start_date, result, outfile, passlog,
                   lastFetch, preSusp, passFetched, rerun, passes>>

\* the data of the open periods changes at the remote
Revise ==
    /\ phase = "idle"
    /\ events < MaxEvents
    /\ events' = events + 1
    /\ rev' = rev + 1
    /\ quiet' = FALSE
    /\ rerun' = FALSE
    /\ UNCHANGED <<others, prov, catalog, loaded, now, acct, used, cache, files, archived, phase, ui, periods,
                   fitbit_data, user_id, start_date, result, outfile, passlog,
                   lastFetch, preSusp, passFetched, passes>>

\* the Open Humans id of another member whose sync runs at the same time
PeerId == "oh2"

\* the queries the other member's sync makes: a yearly and a monthly
\* resource, for a period that both accounts have, of the Fitbit account it
\* is connected to, which may be the account of the member
PeerPaths == { <<"tracker-steps", <<2020, 0>>>>, <<"heart", <<2020, 12>>>> }

\* fitbit_query called with the other member's open_humans_id, at any moment
\* of the member's pass: it reads the newest entry of its key and returns it,
\* or sends the request (counted in the global realm and in its own) and
\* stores the response
PeerQuery(a, name, pk) ==
    LET key == DataKey(name, PathUser(name, a), pk, PeerId)
        target == PeriodCeil(pk)
        item == CacheItem(key, RemotePayload(a, name, pk, now, rev), now)
    IN  /\ events < MaxEvents
        /\ events' = events + 1
        /\ IF Hit(key, target)
           THEN /\ peer' = [peer EXCEPT !.served = @ \cup {Newest(key)}]
                /\ UNCHANGED <<used, cache>>
           ELSE /\ used["fitbit"] < RealmMax("fitbit") - SAFETY_THRESHOLD
                /\ used' = [used EXCEPT !["fitbit"] = @ + 1]
                /\ cache' = IF ShouldCache(target, now)
                            THEN cache \cup {item} ELSE cache
                /\ peer' = IF ShouldCache(target, now)
                           THEN [peer EXCEPT !.wrote = @ \cup {item}] ELSE peer
        /\ UNCHANGED <<now, rev, syncVars, movesVars, runkeeperVars, driverVars>>

Next ==
    \/ \E load \in LoadOutcomes : StartPass(load)
    \/ SkipPeriod
    \/ QueryCached
    \/ QueryRefused
    \/ \E resp \in Responses(acct, CurName, CurPeriod, now, rev) :
           QueryRateLimited(resp)
    \/ \E resp \in Responses(acct, CurName, CurPeriod, now, rev) :
           QueryFailed(resp)
    \/ \E resp \in Responses(acct, CurName, CurPeriod, now, rev) :
           QueryFetched(resp)
    \/ \E stage \in {"read", "write"} :
           \E resp \in Responses(acct, CurName, CurPeriod, now, rev) :
               QueryCacheError(stage, resp)
    \/ Complete
    \/ \E d \in TickSteps : Tick(d)
    \/ SwitchAccount
    \/ Revise

Spec == Init /\ [][Next]_vars

\* the scenario: the driver submits the sync again until it has completed,
\* the remote answers every request, time passes between the passes
ScenarioNext ==
    \/ result.kind # "merged" /\ StartPass("ok")
    \/ QueryCached
    \/ QueryRefused
    \/ \E resp \in Responses(acct, CurName, CurPeriod, now, rev) :
           ~IsFault(resp) /\ QueryFetched(resp)
    \/ Complete
    \/ \E d \in ScenarioSteps : passes > 0 /\ Tick(d)

ScenarioSpec == ScenarioInit /\ [][ScenarioNext]_vars

\* an hour passes while the sync waits to be run again: the requests counted
\* by the limiter have left its window (timespan=3600)
Replenish ==
    /\ phase = "idle"
    /\ result.kind \in {"none", "suspended"}
    /\ \E r \in Realms : used[r] >= RealmMax(r) - SAFETY_THRESHOLD
    /\ now' = now + REALM_TIMESPAN
    /\ used' = [r \in Realms |-> 0]
    /\ quiet' = FALSE
    /\ UNCHANGED <<others, prov, catalog, loaded, acct, rev, cache, files, archived, phase,
                   ui, periods, fitbit_data, user_id, start_date, result,
                   outfile, passlog, lastFetch, preSusp, passFetched, rerun,
                   passes, events>>

\* resubmission: the sync is run again after every countdown, the remote
\* answers every request it is sent with data or with 429, the limiter's
\* window rolls over while the sync waits
ResubmitNext ==
    \/ Resubmit
    \/ QueryCached
    \/ QueryRefused
    \/ \E resp \in Responses(acct, CurName, CurPeriod, now, rev) :
           resp.status = 429 /\ QueryRateLimited(resp)
    \/ \E resp \in Responses(acct, CurName, CurPeriod, now, rev) :
           ~IsFault(resp) /\ QueryFetched(resp)
    \/ Complete
    \/ Replenish

\* every step that can be taken is taken in the end, and the window of the
\* limiter does roll over between the passes
ResubmitSpec ==
    /\ Init
    /\ [][ResubmitNext]_vars
    /\ WF_vars(ResubmitNext)
    /\ SF_vars(Replenish)

(***************************************************************************)
(* sources/moves.py: moves_query, get_full_storyline, create_datafiles.    *)
(***************************************************************************)
MOVES_COUNTDOWN == 60

\* the day of the week of an hour (Monday is 0; 2019-01-01 was a Tuesday)
Weekday(t) == ((t \div 24) + 1) % 7

\* the day of the year of an hour, counted from 0
YearDay(t) == (t - YearStart(YearOf(t))) \div 24

\* int(strftime('%W')): the weeks begin on Monday, and the days of a year
\* before its first Monday are in week 0
WeekNumber(t) == (YearDay(t) + 7 - Weekday(t)) \div 7

\* the first hour of week w of year y, and the first hour after it
WeekStart(y, w) ==
    IF w = 0 THEN YearStart(y)
    ELSE YearStart(y) + 24 * (((7 - Weekday(YearStart(y))) % 7) + 7 * (w - 1))
WeekEnd(y, w) ==
    IF WeekStart(y, w + 1) > YearStart(y + 1) THEN YearStart(y + 1)
    ELSE WeekStart(y, w + 1)

\* the end of an iteration of get_full_storyline: the week it visits next
PreviousWeek(y, w) ==
    IF w > 1 THEN <<y, w - 1>>
    ELSE <<y - 1, WeekNumber(Date(y - 1, 12, 31))>>

\* the remote service: the member's Moves account has data from this day on
MovesToken == "token"
MovesSince == Date(2020, 12, 21)
MovesStarts == {DateTime(2021, 1, 2, 10), DateTime(2021, 1, 12, 10)}
MovesSteps == {24, 7 * 24}

\* data_response.json() for the storyline of one week: the days of the week,
\* or an error when the week is outside the range of the account; the data
\* of a week may change (rev) until the week has ended
MovesResponse(y, w, t, r) ==
    IF WeekEnd(y, w) > MovesSince /\ WeekStart(y, w) <= t
    THEN [error |-> FALSE,
          days |-> << [year |-> y, week |-> w,
                       rev |-> IF t >= WeekEnd(y, w) THEN 0 ELSE r] >>]
    ELSE [error |-> TRUE, days |-> << >>]

NoMovesResponse == [error |-> FALSE, days |-> << >>]

\* data_key = '{}{}'.format(data_url, access_token), the path formatted with
\* the year and the week
MovesKey(y, w, token) == [url |-> <<y, w>>, token |-> token]

CurMovesKey == MovesKey(current_year, current_week, MovesToken)

\* the state no step of the Moves sync touches
notMoves == <<syncVars, acct, used, peer, runkeeperVars, driverVars>>

\* the values of kwargs['return_status'] a caller may pass: none, or what
\* the call before returned when that was a countdown
ReturnStatuses ==
    {NoStatus} \cup
    (IF moves_result.kind = "countdown"
     THEN {[countdown |-> moves_result.countdown]} ELSE {})

\* create_datafiles is called: get_full_storyline starts at the current week
MovesStart(rs) ==
    /\ moves_pc = "idle"
    /\ current_year' = YearOf(now)
    /\ current_week' = WeekNumber(now)
    /\ in_user_range' = TRUE
    /\ all_data' = << >>
    /\ moves_pc' = "loop"
    /\ return_status' = rs
    /\ moves_result' = NoMovesResult
    /\ moves_log' = << >>
    /\ UNCHANGED <<now, rev, cache, events, moves_file, notMoves>>

MovesLooping == moves_pc = "loop" /\ in_user_range

\* an iteration of get_full_storyline once moves_query has returned
MovesStep(week_data) ==
    /\ in_user_range' = ~week_data.error
    /\ all_data' = IF week_data.error THEN all_data
                   ELSE week_data.days \o all_data
    /\ current_year' = PreviousWeek(current_year, current_week)[1]
    /\ current_week' = PreviousWeek(current_year, current_week)[2]

MovesLogRec(out, value, ctime) ==
    [year |-> current_year, week |-> current_week, t |-> now,
     out |-> out, value |-> value, ctime |-> ctime]

\* moves_query returns the newest entry of the key
MovesQueryCached ==
    /\ MovesLooping
    /\ Entries(CurMovesKey) # {}
    /\ MovesStep(Newest(CurMovesKey).response)
    /\ moves_log' = Append(moves_log,
                           MovesLogRec("cached", Newest(CurMovesKey).response,
                                       Newest(CurMovesKey).request_time))
    /\ UNCHANGED <<now, rev, cache, events, moves_pc, return_status,
                   moves_result, moves_file, notMoves>>

\* moves_query sends the request, stores the response and returns it
MovesQueryFetched ==
    /\ MovesLooping
    /\ Entries(CurMovesKey) = {}
    /\ LET resp == MovesResponse(current_year, current_week, now, rev)
       IN  /\ cache' = cache \cup {CacheItem(CurMovesKey, resp, now)}
           /\ MovesStep(resp)
           /\ moves_log' = Append(moves_log, MovesLogRec("fetched", resp, now))
    /\ UNCHANGED <<now, rev, events, moves_pc, return_status, moves_result,
                   moves_file, notMoves>>

\* the countdown create_datafiles returns when the rate cap was met
MovesCountdown(rs, data) ==
    IF rs # NoStatus /\ data = << >> THEN 2 * rs.countdown ELSE MOVES_COUNTDOWN

\* the remote answers 429: moves_query reports the rate cap,
\* get_full_storyline returns and create_datafiles returns the countdown
MovesQueryCapped ==
    /\ MovesLooping
    /\ Entries(CurMovesKey) = {}
    /\ events < MaxEvents
    /\ events' = events + 1
    /\ moves_result' = [kind |-> "countdown",
                        countdown |-> MovesCountdown(return_status, all_data)]
    /\ moves_pc' = "idle"
    /\ moves_log' = Append(moves_log, MovesLogRec("capped", NoMovesResponse, now))
    /\ UNCHANGED <<now, rev, cache, current_year, current_week, in_user_range,
                   all_data, return_status, moves_file, notMoves>>

\* get_full_storyline has left its loop: create_datafiles writes the file,
\* moves it to storage and returns None
MovesWrite ==
    /\ moves_pc = "loop"
    /\ ~in_user_range
    /\ moves_file' = [exists |-> TRUE, data |-> all_data]
    /\ moves_result' = [kind |-> "written", countdown |-> 0]
    /\ moves_pc' = "idle"
    /\ UNCHANGED <<now, rev, cache, events, current_year, current_week,
                   in_user_range, all_data, return_status, moves_log, notMoves>>

\* time passes between two calls of create_datafiles
MovesWait(d) ==
    /\ moves_pc = "idle"
    /\ events < MaxEvents
    /\ events' = events + 1
    /\ now' = now + d
    /\ UNCHANGED <<rev, cache, movesVars, notMoves>>

\* the member moves: the data of the week that has not ended changes
MovesRevise ==
    /\ moves_pc = "idle"
    /\ events < MaxEvents
    /\ events' = events + 1
    /\ rev' = rev + 1
    /\ UNCHANGED <<now, cache, movesVars, notMoves>>

MovesInit ==
    /\ catalog = fitbit_urls
    /\ now \in MovesStarts
    /\ acct = "A"
    /\ used = [r \in Realms |-> 0]
    /\ Fresh
    /\ OthersIdle

MovesNext ==
    \/ \E rs \in ReturnStatuses : MovesStart(rs)
    \/ MovesQueryCached
    \/ MovesQueryFetched
    \/ MovesQueryCapped
    \/ MovesWrite
    \/ \E d \in MovesSteps : MovesWait(d)
    \/ MovesRevise

MovesSpec == MovesInit /\ [][MovesNext]_vars

\* the time that passes between two passes: hours, or more than CACHE_MAX
SharedSteps == {2, 8 * 24}

\* the syncs of two members run at the same time on the one cache table;
\* the remote answers every request
SharedNext ==
    \/ StartPass("ok")
    \/ SkipPeriod
    \/ QueryCached
    \/ QueryRefused
    \/ \E resp \in Responses(acct, CurName, CurPeriod, now, rev) :
           ~IsFault(resp) /\ QueryFetched(resp)
    \/ Complete
    \/ \E d \in SharedSteps : Tick(d)
    \/ \E a \in Accounts : \E p \in PeerPaths : PeerQuery(a, p[1], p[2])

SharedSpec == Init /\ [][SharedNext]_vars

(***************************************************************************)
(* sources/runkeeper.py and data_retrieval/runkeeper.py: get_items.        *)
(***************************************************************************)
\* query_data['items'] of page p: the items are told apart by their page and
\* their place in it
PageItems(pages, p) == [j \in 1..pages[p] |-> <<p, j>>]

\* variant: the items of the pages before are put behind
JoinPrevious_Behind(prev_items, items) == items \o prev_items

\* items = prev_items + items
JoinPrevious(prev_items, items) == prev_items \o items

\* get_items(access_token, path, recurse): the items it returns, the pages it
\* has requested, in order, and whether it raised AssertionError; a page has
\* 'previous' unless it is the first and 'next' unless it is the last
RECURSIVE get_items(_, _, _, _)
get_items(pages, size, p, recurse) ==
    LET prev == IF p > 1 /\ recurse \in {"both", "prev"}
                THEN get_items(pages, size, p - 1, "prev") ELSE NoItems
        next == IF p < Len(pages) /\ recurse \in {"both", "next"}
                THEN get_items(pages, size, p + 1, "next") ELSE NoItems
        items == JoinPrevious(prev.items, PageItems(pages, p)) \o next.items
    IN  [items |-> items,
         requested |-> <<p>> \o prev.requested \o next.requested,
         raised |-> recurse = "both" /\ Len(items) # size]

RECURSIVE SumOf(_)
SumOf(q) == IF q = << >> THEN 0 ELSE Head(q) + SumOf(Tail(q))

\* the chains of pages, the page the caller starts on, and the size the
\* remote reports: the number of items, or one more
RunKeeperInit ==
    /\ catalog = fitbit_urls
    /\ now = InitNow
    /\ acct = "A"
    /\ used = [r \in Realms |-> 0]
    /\ Fresh
    /\ MovesIdle
    /\ DriverIdle
    /\ \E n \in 1..MaxPages : rk_pages \in [1..n -> 0..MaxItems]
    /\ rk_path \in 1..Len(rk_pages)
    /\ rk_size \in {SumOf(rk_pages), SumOf(rk_pages) + 1}
    /\ rk_out = NoItems

\* the caller gets the items of a feed: get_items(access_token, path)
RunGetItems ==
    /\ rk_out = NoItems
    /\ rk_out' = get_items(rk_pages, rk_size, rk_path, "both")
    /\ UNCHANGED <<rk_pages, rk_size, rk_path, now, rev, cache, events, acct,
                   used, syncVars, peer, movesVars, driverVars>>

RunKeeperNext == RunGetItems

RunKeeperSpec == RunKeeperInit /\ [][RunKeeperNext]_vars

(***************************************************************************)
(* The drivers: BaseSource.run and FitbitSource.run_cli.                   *)
(***************************************************************************)
FileName == "fitbit-data.json"

\* what create_files can return to its caller: the countdown, or None once
\* the file is written
CreateResults == {RateLimitResult, MergedResult}

\* the state no step of a driver touches
notDriver == <<now, rev, cache, acct, used, syncVars, peer, movesVars,
               runkeeperVars>>

\* the driver calls create_files, which registers the file in temp_files
\* and returns res; run returns a countdown to the task queue, run_cli
\* sleeps; without a countdown both go on to move_files (run_cli by break)
CreateFiles(res) ==
    /\ cli_pc = "loop"
    /\ res = RateLimitResult => events < MaxEvents
    /\ events' = IF res = RateLimitResult THEN events + 1 ELSE events
    /\ temp_files' = Append(temp_files, [temp_filename |-> FileName])
    /\ temp_dir' = IF res = MergedResult THEN temp_dir \cup {FileName}
                   ELSE temp_dir
    /\ cli_pc' = IF res = MergedResult THEN "move"
                 ELSE IF driver = "run" THEN "returned" ELSE "sleep"
    /\ move_i' = 1
    /\ ops' = Append(ops, IF res = MergedResult THEN "create" ELSE "countdown")
    /\ UNCHANGED <<driver, local, data_files, oh_files, notDriver>>

\* the task queue runs the sync again: a new source object (BaseSource's
\* __init__ takes the return_status of the run before) calls run
RunAgain ==
    /\ cli_pc = "returned"
    /\ cli_pc' = "loop"
    /\ temp_files' = << >>
    /\ temp_dir' = {}
    /\ data_files' = << >>
    /\ UNCHANGED <<driver, local, move_i, oh_files, ops, events, notDriver>>

\* run_cli after time.sleep(countdown): the end of the loop body
\* (archive_files and update_open_humans unless local), then the loop again
SleepOver ==
    /\ cli_pc = "sleep"
    /\ cli_pc' = IF local THEN "loop" ELSE "loop_archive"
    /\ UNCHANGED <<driver, local, temp_files, temp_dir, data_files, move_i,
                   oh_files, ops, events, notDriver>>

\* move_files, one entry of temp_files: the file is moved out of the
\* temporary directory (and, unless local, recorded in data_files); moving a
\* file that is not there raises; after the last entry the directory is
\* removed and run goes on to archive_files unless local
MoveFile ==
    /\ cli_pc = "move"
    /\ IF move_i > Len(temp_files)
       THEN /\ cli_pc' = IF driver = "run" /\ ~local THEN "archive" ELSE "done"
            /\ UNCHANGED <<temp_dir, data_files, move_i, ops>>
       ELSE IF temp_files[move_i].temp_filename \in temp_dir
       THEN /\ temp_dir' = temp_dir \ {temp_files[move_i].temp_filename}
            /\ data_files' = IF local THEN data_files
                             ELSE Append(data_files,
                                         temp_files[move_i].temp_filename)
            /\ move_i' = move_i + 1
            /\ ops' = Append(ops, "move")
            /\ UNCHANGED cli_pc
       ELSE /\ cli_pc' = "failed"
            /\ ops' = Append(ops, "error")
            /\ UNCHANGED <<temp_dir, data_files, move_i>>
    /\ UNCHANGED <<driver, local, temp_files, oh_files, events, notDriver>>

\* archive_files: the files listed at Open Humans are archived
ArchiveFiles ==
    /\ cli_pc \in {"archive", "loop_archive"}
    /\ oh_files' = {}
    /\ ops' = Append(ops, "archive")
    /\ cli_pc' = IF cli_pc = "archive" THEN "update" ELSE "loop_update"
    /\ UNCHANGED <<driver, local, temp_files, temp_dir, data_files, move_i,
                   events, notDriver>>

\* update_open_humans: data_files is reported
UpdateOpenHumans ==
    /\ cli_pc \in {"update", "loop_update"}
    /\ oh_files' = oh_files \cup {data_files[i] : i \in 1..Len(data_files)}
    /\ ops' = Append(ops, "update")
    /\ cli_pc' = IF cli_pc = "update" THEN "done" ELSE "loop"
    /\ UNCHANGED <<driver, local, temp_files, temp_dir, data_files, move_i,
                   events, notDriver>>

\* either driver, local or not, with or without files of an earlier sync
DriverInit ==
    /\ catalog = fitbit_urls
    /\ now = InitNow
    /\ acct = "A"
    /\ used = [r \in Realms |-> 0]
    /\ Fresh
    /\ MovesIdle
    /\ RunKeeperIdle
    /\ driver \in {"run", "run_cli"}
    /\ local \in BOOLEAN
    /\ cli_pc = "loop"
    /\ temp_files = << >>
    /\ temp_dir = {}
    /\ data_files = << >>
    /\ move_i = 0
    /\ oh_files \in {{}, {"prior"}}
    /\ ops = << >>

DriverNext ==
    \/ \E res \in CreateResults : CreateFiles(res)
    \/ RunAgain
    \/ SleepOver
    \/ MoveFile
    \/ ArchiveFiles
    \/ UpdateOpenHumans

DriverSpec == DriverInit /\ [][DriverNext]_vars

(***************************************************************************)
(* expire_cache.py: the sweep of the cache table.                          *)
(***************************************************************************)
\* variant: the rows older than an hour are deleted
Expired_AfterAnHour(e, t) == e.request_time < t - 1

\* CacheItem.request_time < one_month_ago
Expired(e, t) == e.request_time < t - EXPIRE_AFTER

\* the script runs, at any moment of a pass or between two passes
Sweep ==
    /\ cache' = {e \in cache : ~Expired(e, now)}
    /\ UNCHANGED <<now, rev, acct, used, events, syncVars, peer, movesVars,
                   runkeeperVars, driverVars>>

\* the passes of the member's sync, suspended by the limiter or completed,
\* the time between them, and the sweep
SweepNext ==
    \/ StartPass("ok")
    \/ SkipPeriod
    \/ QueryCached
    \/ QueryRefused
    \/ \E resp \in Responses(acct, CurName, CurPeriod, now, rev) :
           ~IsFault(resp) /\ QueryFetched(resp)
    \/ Complete
    \/ \E d \in TickSteps : Tick(d)
    \/ Sweep

SweepSpec == Init /\ [][SweepNext]_vars

\* the sync is submitted again and again, whatever the last pass returned
SubmitAgain ==
    /\ passes' = IF passes < MaxPasses THEN passes + 1 ELSE passes
    /\ Begin("ok")

\* the time between two submissions: more than CACHE_MAX
TableSteps == {8 * 24}

\* time passes between two passes; the requests counted by the limiter have
\* left its window
Age(d) ==
    /\ phase = "idle"
    /\ moves_pc = "idle"
    /\ events < MaxEvents
    /\ events' = events + 1
    /\ now' = now + d
    /\ used' = [r \in Realms |-> 0]
    /\ quiet' = FALSE
    /\ UNCHANGED <<others, prov, catalog, loaded, acct, rev, cache, files, archived,
                   phase, ui, periods, fitbit_data, user_id, start_date,
                   result, outfile, passlog, lastFetch, preSusp, passFetched,
                   rerun, passes>>

\* the limiter has budget for every request
TableInit ==
    /\ catalog = fitbit_urls
    /\ now = InitNow
    /\ acct = "A"
    /\ used = [r \in Realms |-> 0]
    /\ Fresh
    /\ OthersIdle

\* the Fitbit sync and the Moves sync use the one CacheItem table, each
\* submitted any number of times, a pass of the one between two passes of
\* the other; the remotes answer every request
TableNext ==
    \/ moves_pc = "idle" /\ SubmitAgain
    \/ SkipPeriod
    \/ QueryCached
    \/ \E resp \in Responses(acct, CurName, CurPeriod, now, rev) :
           ~IsFault(resp) /\ QueryFetched(resp)
    \/ Complete
    \/ \E d \in TableSteps : Age(d)
    \/ phase = "idle" /\ MovesStart(NoStatus)
    \/ MovesQueryCached
    \/ MovesQueryFetched
    \/ MovesWrite

TableSpec == TableInit /\ [][TableNext]_vars

\* completed runs one after another, at any distance in time, of either
\* account, with the cache between them
StorageNext ==
    \/ SubmitAgain
    \/ SkipPeriod
    \/ QueryCached
    \/ \E resp \in Responses(acct, CurName, CurPeriod, now, rev) :
           ~IsFault(resp) /\ QueryFetched(resp)
    \/ Complete
    \/ \E d \in TickSteps : Age(d)
    \/ SwitchAccount

StorageSpec == TableInit /\ [][StorageNext]_vars

(***************************************************************************)
(* Properties.                                                             *)
(***************************************************************************)
LogIdx == 1..Len(passlog)
LastLog == passlog[Len(passlog)]
Calendar(r) == r.phase \in {"year", "month"}
\* the query went to the remote service
Sent(r) == r.out \in {"fetched", "limited", "failed", "storefail"}
DataIdx(r) == <<r.key.name, r.key.pk>>
\* the stored output the pass loaded
PriorOutput == IF result.kind = "merged" THEN archived ELSE files

\* C1: when a pass completes after passes of the same account were suspended,
\* the output holds, for every closed partition those passes had fetched, the
\* payload they fetched, and every partition this pass obtained.
NoLossAcrossSuspension ==
    result.kind = "merged" =>
        /\ \A x \in preSusp :
              x[1].uid = files.profile.encodedId =>
                  /\ <<x[1].name, x[1].pk>> \in DOMAIN files.data
                  /\ files.data[<<x[1].name, x[1].pk>>] = x[2]
        /\ \A i \in LogIdx :
              (passlog[i].out \in {"fetched", "cached"} /\ passlog[i].phase # "profile")
                  => /\ DataIdx(passlog[i]) \in DOMAIN files.data
                     /\ files.data[DataIdx(passlog[i])] = passlog[i].value

\* C1 witness: a completed pass that took from the cache a closed partition a
\* suspended pass had fetched, and fetched another partition itself
ResumedAndMerged ==
    /\ result.kind = "merged"
    /\ \E x \in preSusp : \E i \in LogIdx :
          /\ x[1].uid = files.profile.encodedId
          /\ passlog[i].key = x[1]
          /\ passlog[i].out = "cached"
    /\ \E i \in LogIdx : Calendar(passlog[i]) /\ passlog[i].out = "fetched"

\* C2: when the stored output carries the profile of another account than the
\* one the profile query resolves, every partition of the data being built,
\* and of the output written, was obtained in this pass for the new account.
IdentityChangeDiscards ==
    /\ (/\ phase \in {"none", "year", "month", "write"}
        /\ files.exists
        /\ files.profile.encodedId # user_id)
          => \A k \in DOMAIN fitbit_data.data :
                /\ fitbit_data.data[k].acct = user_id
                /\ \E i \in LogIdx : DataIdx(passlog[i]) = k
                                     /\ passlog[i].out \in {"fetched", "cached"}
    /\ (/\ result.kind = "merged"
        /\ archived.exists
        /\ archived.profile.encodedId # files.profile.encodedId)
          => \A k \in DOMAIN files.data :
                /\ files.data[k].acct = files.profile.encodedId
                /\ \E i \in LogIdx : DataIdx(passlog[i]) = k
                                     /\ passlog[i].out \in {"fetched", "cached"}

\* C2 witness: an output written for another account than the stored one,
\* whose partitions load_existing_fitbit_data had handed over
DiscardedOnChange ==
    /\ result.kind = "merged"
    /\ archived.exists
    /\ archived.profile.encodedId # files.profile.encodedId
    /\ DOMAIN LoadExisting(archived).data # {}

\* C3: a pass that starts right after a completed one (no time elapsed, same
\* account, same remote data) sends no request for a closed partition the
\* stored output records, and writes the same output.
IdempotentRerun ==
    rerun =>
        /\ result.kind = "merged" => files = archived
        /\ \A i \in LogIdx :
              Sent(passlog[i]) =>
                  ~(/\ Calendar(passlog[i])
                    /\ Closed(passlog[i].target, passlog[i].t)
                    /\ DataIdx(passlog[i]) \in DOMAIN PriorOutput.data)

\* C3 witness: such a second pass completed, having met a closed partition of
\* the stored output that it had to query (it was not loaded from the file)
RerunCompleted ==
    /\ rerun
    /\ result.kind = "merged"
    /\ \E i \in LogIdx :
          /\ passlog[i].out = "cached"
          /\ Closed(passlog[i].target, passlog[i].t)
          /\ DataIdx(passlog[i]) \in DOMAIN archived.data

\* C4 as stated: no request is sent for a calendar partition whose period
\* ended more than CACHE_MIN before now and that was fetched within CACHE_MAX.
CacheReuseByAgeNow ==
    \A i \in LogIdx :
        (Sent(passlog[i]) /\ Calendar(passlog[i])) =>
            ~(/\ Closed(passlog[i].target, passlog[i].t)
              /\ passlog[i].prev # NoDate
              /\ passlog[i].t - passlog[i].prev <= CACHE_MAX)

\* C4 amended: no request is sent, and no budget used, for a calendar partition
\* that was fetched within CACHE_MAX and whose period had ended more than
\* CACHE_MIN before that fetch.
CacheReuseByAgeAtFetch ==
    \A i \in LogIdx :
        (passlog[i].out \in {"fetched", "limited", "failed", "refused"}
            /\ Calendar(passlog[i])) =>
            ~(/\ passlog[i].prev # NoDate
              /\ Closed(passlog[i].target, passlog[i].prev)
              /\ passlog[i].t - passlog[i].prev <= CACHE_MAX)

\* C4 witness: a later pass answered from the cache a partition that an
\* earlier pass, since suspended, had fetched when it was closed
ReusedAfterSuspension ==
    \E i \in LogIdx : \E x \in preSusp :
        /\ passlog[i].out = "cached"
        /\ passlog[i].key = x[1]
        /\ passlog[i].prev = passlog[i].ctime
        /\ Closed(passlog[i].target, passlog[i].prev)
        /\ x \notin passFetched

\* C5: a query is answered from the cache only if the entry is at most
\* CACHE_MAX old and the period ended more than CACHE_MIN before now; a
\* partition that is not yet closed is never answered from the cache.
CacheTrustTwoSided ==
    \A i \in LogIdx :
        passlog[i].out = "cached" =>
            /\ passlog[i].t - passlog[i].ctime <= CACHE_MAX
            /\ passlog[i].target # NoDate
            /\ passlog[i].t - passlog[i].target > CACHE_MIN

\* C5 witness: in one pass, a query answered from an entry stored at an
\* earlier time and a partition that is not closed fetched from the remote
CachedAndRefetched ==
    /\ \E i \in LogIdx : passlog[i].out = "cached"
                         /\ passlog[i].t > passlog[i].ctime
    /\ \E i \in LogIdx : /\ passlog[i].out = "fetched"
                         /\ Calendar(passlog[i])
                         /\ ~Closed(passlog[i].target, passlog[i].t)

\* C6: the profile and the resources without period are never answered from
\* the cache nor skipped: a pass that got past them has fetched each.
NoneNeverFromCache ==
    /\ \A i \in LogIdx :
          passlog[i].phase \in {"profile", "none"} =>
              passlog[i].out \in {"fetched", "limited", "failed", "refused",
                                  "cachefail", "storefail"}
    /\ phase \in {"year", "month", "write"} =>
          \A n \in {"profile"} \cup UrlNames("none") :
              \E i \in LogIdx : passlog[i].key.name = n
                                /\ passlog[i].out = "fetched"

\* C6 witness: a resource without period fetched again although it had been
\* fetched within the last week and the cache is not empty
NoneRefetched ==
    \E i \in LogIdx :
        /\ passlog[i].phase = "none"
        /\ passlog[i].out = "fetched"
        /\ passlog[i].prev # NoDate
        /\ passlog[i].t - passlog[i].prev <= CACHE_MAX
        /\ cache # {}

StoredBy(r) == \E e \in cache : e.key = r.key /\ e.request_time = r.t

\* C7 as stated: every successful remote fetch creates a cache entry.
EveryFetchCached ==
    \A i \in LogIdx : passlog[i].out = "fetched" => StoredBy(passlog[i])

\* C7 amended: a successful remote fetch creates a cache entry exactly when
\* it is of a calendar partition whose period ended more than CACHE_MIN
\* before the fetch.
ClosedFetchCached ==
    \A i \in LogIdx :
        passlog[i].out = "fetched" =>
            (StoredBy(passlog[i]) <=>
                (Calendar(passlog[i]) /\ Closed(passlog[i].target, passlog[i].t)))

\* C7 witness: a pass that fetched a closed partition, stored, and an open
\* one, not stored
FetchedBothKinds ==
    /\ \E i \in LogIdx : passlog[i].out = "fetched" /\ StoredBy(passlog[i])
    /\ \E i \in LogIdx : /\ passlog[i].out = "fetched"
                         /\ Calendar(passlog[i])
                         /\ ~StoredBy(passlog[i])

\* C8: a pass whose last query met a rate limit (local or remote) has
\* returned a countdown of 900 and nothing else, and has written no file.
RateLimitSuspends ==
    /\ (passlog # << >> /\ LastLog.out \in {"refused", "limited"}) =>
          /\ result.kind = "suspended"
          /\ result.countdown = COUNTDOWN
          /\ result.countdown > 0
          /\ outfile = NoFile
    /\ result.kind = "suspended" =>
          /\ DOMAIN result = {"kind", "countdown"}
          /\ outfile = NoFile
          /\ passlog # << >> /\ LastLog.out \in {"refused", "limited"}

\* C8 witness: a pass suspended by the remote after it had fetched partitions
SuspendedWithData ==
    /\ result.kind = "suspended"
    /\ LastLog.out = "limited"
    /\ \E i \in LogIdx : Calendar(passlog[i]) /\ passlog[i].out = "fetched"

\* C9: a query that meets a rate limit is the last of its pass: the pass is
\* over and suspended, nothing is requested, stored or merged after it.
SuspendedImmediately ==
    \A i \in LogIdx :
        passlog[i].out \in {"refused", "limited"} =>
            /\ i = Len(passlog)
            /\ phase = "idle"
            /\ result.kind = "suspended"
            /\ fitbit_data = EmptyData

\* C9 witness: a pass suspended on a resource without period, before any
\* calendar partition
SuspendedBeforeCalendar ==
    /\ passlog # << >>
    /\ LastLog.out \in {"refused", "limited"}
    /\ LastLog.phase = "none"
    /\ passes = 1

\* C10: every answer of the remote that is an error and no rate limit (an
\* error payload, a response that is no JSON, any status other than 200 and
\* 429) ends the pass with an exception: the query is the last of the pass,
\* the result is neither a countdown nor a completed output, no file is
\* written and the response is neither merged nor stored.
RemoteErrorIsFatal ==
    \A i \in LogIdx :
        (Sent(passlog[i]) /\ passlog[i].status \notin {200, 429}) =>
            /\ i = Len(passlog)
            /\ phase = "idle"
            /\ result.kind = "raised"
            /\ outfile = NoFile
            /\ ~StoredBy(passlog[i])

\* C11: a pass ends with a countdown only when the limiter refused the last
\* request or the remote answered it with status 429; no other status of the
\* remote is treated as a rate limit.
SuspendedOnlyOnRateLimit ==
    /\ result.kind = "suspended" =>
          /\ passlog # << >>
          /\ \/ LastLog.out = "refused"
             \/ LastLog.out = "limited" /\ LastLog.status = 429
    /\ \A i \in LogIdx :
          (Sent(passlog[i]) /\ passlog[i].status \notin {200, 429}) =>
              passlog[i].out # "limited"

\* the queries of the pass: resource, year and outcome of each, in order
Outcomes ==
    [i \in LogIdx |-> <<passlog[i].key.name, passlog[i].key.pk[1], passlog[i].out>>]

\* the number of requests the limiter still admits
Budget(u) ==
    MinOf({RealmMax(r) - SAFETY_THRESHOLD - u[r] : r \in Realms})

ScenarioYears == {<<"tracker-steps", <<y, 0>>>> : y \in {2019, 2020, 2021}}

\* C12: in the scenario, the first pass fetches the profile and the steps of
\* 2019 and is suspended on 2020; no later pass requests 2019 again; and the
\* second pass, when the limiter has been reset, fetches 2020 and 2021 only
\* and completes with the three years in its output.
ScenarioOutcome ==
    /\ (passes = 1 /\ phase = "idle") =>
          /\ Outcomes = << <<"profile", 0, "fetched">>,
                           <<"tracker-steps", 2019, "fetched">>,
                           <<"tracker-steps", 2020, "refused">> >>
          /\ result = RateLimitResult
          /\ ~files.exists
    /\ passes >= 2 =>
          \A i \in LogIdx :
              passlog[i].key.pk = <<2019, 0>> => passlog[i].out = "cached"
    /\ (passes = 2 /\ phase = "idle" /\ passlog # << >>
           /\ Budget(passlog[1].used) >= 3) =>
          /\ Outcomes = << <<"profile", 0, "fetched">>,
                           <<"tracker-steps", 2019, "cached">>,
                           <<"tracker-steps", 2020, "fetched">>,
                           <<"tracker-steps", 2021, "fetched">> >>
          /\ result = MergedResult
          /\ files.exists
          /\ DOMAIN files.data = ScenarioYears
          /\ \A k \in ScenarioYears :
                files.data[k] = RemotePayload(ScenarioAccount, k[1], k[2], now, rev)

\* C12 witness: the second pass of the scenario has completed, with 2019
\* taken from the cache
ScenarioMerged ==
    /\ catalog = ScenarioUrls
    /\ passes = 2
    /\ result = MergedResult
    /\ \E i \in LogIdx : passlog[i].key.pk = <<2019, 0>> /\ passlog[i].out = "cached"

\* a realm that has no budget left
Exhausted(u, r) == u[r] >= RealmMax(r) - SAFETY_THRESHOLD

\* C13: a request goes to the remote only when neither the global realm nor
\* the member's realm is exhausted, and it is then counted in both; while a
\* realm is exhausted no request is sent and no realm's count changes.
GatedOnAllRealms ==
    [][ /\ (Len(passlog') > Len(passlog) /\ Sent(passlog'[Len(passlog')])) =>
              /\ \A r \in Realms : ~Exhausted(used, r)
              /\ \A r \in Realms : used'[r] = used[r] + 1
        /\ (phase \in QueryPhases /\ \E r \in Realms : Exhausted(used, r)) =>
              /\ used' = used
              /\ Len(passlog') > Len(passlog) =>
                    ~Sent(passlog'[Len(passlog')]) ]_vars

\* C13 witness: a request refused because the member's realm is exhausted
\* while the global realm has budget, and the counts are as they were
RefusedByUserRealm ==
    /\ passlog # << >>
    /\ LastLog.out = "refused"
    /\ Exhausted(LastLog.used, "fitbit-oh1")
    /\ ~Exhausted(LastLog.used, "fitbit")
    /\ used = LastLog.used
    /\ \E i \in LogIdx : passlog[i].out = "fetched"

\* the last period of its granularity that had ended at time t
MostRecentCompleted(pk, t) ==
    IF pk[2] = 0 THEN pk[1] = YearOf(t) - 1
    ELSE MonthIndex(pk[1], pk[2]) = MonthIndex(MonthOf(t)[1], MonthOf(t)[2]) - 1

\* C15 as stated: in no pass is the most recent completed year or month
\* carried over from the stored output; it is queried again.
RecentPeriodRequeried ==
    \A i \in LogIdx :
        (Calendar(passlog[i]) /\ MostRecentCompleted(passlog[i].key.pk, passlog[i].t))
            => passlog[i].out # "skip"

\* C15 amended: a period is carried over from the stored output only if it
\* ended at least STORAGE_MIN before the pass, and then with the payload that
\* was stored; the most recent completed month is queried again in every
\* pass, and so is the most recent completed year as long as the latest month
\* of the stored output began less than STORAGE_MIN after the end of that year.
RecentMonthRequeried ==
    \A i \in LogIdx :
        LET r == passlog[i]
            months == KeysOf(PriorOutput.data, UrlsOf("month")[1].name)
        IN  /\ (Calendar(r) /\ r.out = "skip") =>
                  /\ r.t - r.target >= STORAGE_MIN
                  /\ DataIdx(r) \in DOMAIN PriorOutput.data
                  /\ phase \in {"year", "month", "write"} =>
                        fitbit_data.data[DataIdx(r)] = PriorOutput.data[DataIdx(r)]
            /\ (r.phase = "month" /\ MostRecentCompleted(r.key.pk, r.t)) =>
                  r.out # "skip"
            /\ (/\ r.phase = "year"
                /\ MostRecentCompleted(r.key.pk, r.t)
                /\ PriorOutput.exists
                /\ \A m \in months : PeriodStart(m) - r.target < STORAGE_MIN)
                  => r.out # "skip"

\* C15 witness: a pass that took an old month from the stored output and
\* queried again the most recent completed month and year, both stored
PriorPartlyCarried ==
    /\ \E i \in LogIdx : passlog[i].phase = "month" /\ passlog[i].out = "skip"
    /\ \E i \in LogIdx :
          /\ passlog[i].phase = "month"
          /\ MostRecentCompleted(passlog[i].key.pk, passlog[i].t)
          /\ passlog[i].out \in {"fetched", "cached"}
          /\ DataIdx(passlog[i]) \in DOMAIN PriorOutput.data
    /\ \E i \in LogIdx :
          /\ passlog[i].phase = "year"
          /\ MostRecentCompleted(passlog[i].key.pk, passlog[i].t)
          /\ passlog[i].out \in {"fetched", "cached"}
          /\ DataIdx(passlog[i]) \in DOMAIN PriorOutput.data

\* C16: the stored output changes only when a pass completes: a pass that
\* ends with a countdown (or an exception) leaves the stored files and the
\* archive as they were and stores nothing; a pass that completes stores the
\* file it wrote in place of the stored one, which is archived.
PersistOnlyOnComplete ==
    [][ /\ (files' # files \/ archived' # archived) =>
              (phase = "write" /\ result'.kind = "merged")
        /\ (result'.kind \in {"suspended", "raised"} /\ phase # "idle") =>
              (files' = files /\ archived' = archived /\ outfile' = NoFile)
        /\ (phase = "write" /\ phase' = "idle") =>
              /\ result'.kind = "merged"
              /\ files' = [exists |-> TRUE, profile |-> fitbit_data.profile,
                           data |-> fitbit_data.data]
              /\ files' = outfile'
              /\ archived' = files ]_vars

\* C16 witness: a pass ended with a countdown after it had fetched partitions
\* that the stored output, still in place, does not hold
SuspendedKeepsPrior ==
    /\ result.kind = "suspended"
    /\ files.exists
    /\ \E i \in LogIdx :
          /\ Calendar(passlog[i])
          /\ passlog[i].out = "fetched"
          /\ \/ DataIdx(passlog[i]) \notin DOMAIN files.data
             \/ files.data[DataIdx(passlog[i])] # passlog[i].value

\* C17: when a pass completes for the account of the stored output, every
\* partition of the stored output is in the output written, and the
\* partitions the pass took from the stored output have the payload they had.
NeverDiscards ==
    (/\ result.kind = "merged"
     /\ archived.exists
     /\ archived.profile.encodedId = files.profile.encodedId) =>
        /\ DOMAIN archived.data \subseteq DOMAIN files.data
        /\ \A i \in LogIdx :
              passlog[i].out = "skip" =>
                  /\ DataIdx(passlog[i]) \in DOMAIN archived.data
                  /\ files.data[DataIdx(passlog[i])] =
                         archived.data[DataIdx(passlog[i])]

\* C17 witness: a completed pass that carried partitions over and added the
\* partitions of a period begun since the stored output was written
CarriedAndGrown ==
    /\ result.kind = "merged"
    /\ archived.exists
    /\ archived.profile.encodedId = files.profile.encodedId
    /\ \E i \in LogIdx : passlog[i].out = "skip"
    /\ DOMAIN files.data # DOMAIN archived.data

\* C19: a failure to read the stored output, or to read or write the cache,
\* ends the pass with an exception (the pass does not go on with an empty
\* stored output), and the entries stored earlier in the pass stay in the
\* cache.
StoreFailureAborts ==
    /\ loaded \in {"attr", "error"} =>
          (phase = "idle" /\ result.kind = "raised" /\ passlog = << >>)
    /\ \A i \in LogIdx :
          passlog[i].out \in {"cachefail", "storefail"} =>
              /\ i = Len(passlog)
              /\ phase = "idle"
              /\ result.kind = "raised"
              /\ outfile = NoFile
    /\ \A i \in LogIdx :
          (/\ passlog[i].out = "fetched"
           /\ Calendar(passlog[i])
           /\ Closed(passlog[i].target, passlog[i].t)) => StoredBy(passlog[i])

\* the place of a resource in the catalog (the profile query is in no table)
CatIndex(name) ==
    IF name = "profile" THEN 0
    ELSE CHOOSE i \in 1..Len(catalog) : catalog[i].name = name

\* the place of a loop of get_fitbit_data among its loops
GroupIndex(ph) ==
    IF ph = "profile" THEN 0
    ELSE IF ph = "none" THEN 1
    ELSE IF ph = "year" THEN 2
    ELSE 3

\* C20 as stated: the queries of a pass come one after the other, the profile
\* and the resources without period first, and the resources are visited in
\* the order of their entries in the catalog.
VisitedInCatalogOrder ==
    \A i, j \in LogIdx :
        i < j =>
            /\ CatIndex(passlog[i].key.name) <= CatIndex(passlog[j].key.name)
            /\ Calendar(passlog[i]) => Calendar(passlog[j])

\* C20 amended: every step of a pass makes one query, and the queries come in
\* this order: the profile, the resources without period, the yearly
\* resources, the monthly resources; within each of these groups the
\* resources in the order of the catalog, and for each resource its periods
\* from the oldest to the newest.
VisitedByGranularity ==
    [][ passlog' # passlog =>
          \/ passlog' = << >>
          \/ /\ Len(passlog') = Len(passlog) + 1
             /\ SubSeq(passlog', 1, Len(passlog)) = passlog
             /\ passlog # << >> =>
                   LET a == LastLog
                       b == passlog'[Len(passlog')]
                   IN  \/ GroupIndex(a.phase) < GroupIndex(b.phase)
                       \/ /\ a.phase = b.phase
                          /\ CatIndex(a.key.name) < CatIndex(b.key.name)
                       \/ /\ a.phase = b.phase
                          /\ a.key.name = b.key.name
                          /\ Calendar(a)
                          /\ PeriodStart(a.key.pk) < PeriodStart(b.key.pk) ]_vars

\* C20 witness: a completed pass that visited a yearly resource before a
\* monthly resource that precedes it in the catalog
YearlyBeforeEarlierMonthly ==
    /\ result.kind = "merged"
    /\ \E i, j \in LogIdx :
          /\ i < j
          /\ passlog[i].phase = "year"
          /\ passlog[j].phase = "month"
          /\ CatIndex(passlog[j].key.name) < CatIndex(passlog[i].key.name)
    /\ \E i, j \in LogIdx :
          /\ i < j
          /\ passlog[i].phase = "year"
          /\ passlog[j].phase = "year"
          /\ CatIndex(passlog[i].key.name) < CatIndex(passlog[j].key.name)

\* the calendar partitions of account a at time t
CalendarPartitions(a, t) ==
    { <<n, YearRange(MemberSince[a], t)[i]>> :
        n \in UrlNames("year"), i \in 1..Len(YearRange(MemberSince[a], t)) }
    \cup
    { <<n, MonthRange(MemberSince[a], t)[i]>> :
        n \in UrlNames("month"), i \in 1..Len(MonthRange(MemberSince[a], t)) }

\* the partitions that fitbit_query would not answer from the cache
NeedRequest ==
    { p \in CalendarPartitions(acct, now) :
        ~Hit(DataKey(p[1], acct, p[2], OhId), PeriodCeil(p[2])) }

ServedEntry(r) == CacheItem(r.key, r.value, r.ctime)

\* C21: every query of a sync reads and writes the cache under a key that
\* embeds the Open Humans id of its member: every entry of the table carries
\* the id of the sync that wrote it, the member's pass is answered only from
\* entries the member's own fetches stored, and the other member's sync only
\* from entries it stored itself.
KeysNamespacedByIdentity ==
    /\ \A e \in cache :
          e.key.oh = (IF e \in peer.wrote THEN PeerId ELSE OhId)
    /\ \A i \in LogIdx :
          /\ passlog[i].key.oh = OhId
          /\ passlog[i].out = "cached" =>
                /\ ServedEntry(passlog[i]) \notin peer.wrote
                /\ passlog[i].ctime = passlog[i].prev
    /\ \A e \in peer.served : e \in peer.wrote /\ e.key.oh = PeerId

\* C21 witness: the member's pass was answered from its own entry while the
\* table held an entry of the other member for the same url
SameUrlTwoIdentities ==
    \E i \in LogIdx : \E e \in peer.wrote :
        /\ passlog[i].out = "cached"
        /\ e \in cache
        /\ passlog[i].key = [e.key EXCEPT !.oh = OhId]

\* the greatest request_time of the entries of a key
LatestTime(key) == MaxOf({e.request_time : e \in Entries(key)})

\* C22: the table is a log: no step of fitbit_query or moves_query removes or
\* changes an entry; a query answered from the table is answered from the
\* entry of its key with the greatest request_time, which fitbit_query has
\* accepted; and a request is sent only if the key has no entry or, for
\* fitbit_query, its newest entry is rejected, whatever older entries exist.
AppendOnlyLog ==
    [][ /\ cache \subseteq cache'
        /\ Len(passlog') > Len(passlog) =>
              LET b == passlog'[Len(passlog')]
              IN  /\ b.out = "cached" =>
                        /\ Entries(b.key) # {}
                        /\ b.ctime = LatestTime(b.key)
                        /\ CacheItem(b.key, b.value, b.ctime) \in cache
                        /\ CacheUsable(b.ctime, b.target, now)
                  /\ (b.out = "fetched" /\ Entries(b.key) # {}) =>
                        ~CacheUsable(LatestTime(b.key), b.target, now)
        /\ Len(moves_log') > Len(moves_log) =>
              LET b == moves_log'[Len(moves_log')]
                  key == MovesKey(b.year, b.week, MovesToken)
              IN  /\ b.out = "cached" =>
                        /\ Entries(key) # {}
                        /\ b.ctime = LatestTime(key)
                        /\ CacheItem(key, b.value, b.ctime) \in cache
                  /\ b.out = "fetched" => Entries(key) = {} ]_vars

\* C22 witness: a key with two entries, of which a query of the Fitbit pass
\* was served the newer one, in a table that holds entries of Moves too
NewestOfTwoServed ==
    /\ \E i \in LogIdx : \E e \in Entries(passlog[i].key) :
          /\ passlog[i].out = "cached"
          /\ e.request_time < passlog[i].ctime
    /\ \E e \in cache : "token" \in DOMAIN e.key

MovesIdx == 1..Len(moves_log)

\* C23: moves_query does not answer a query for the week that has not ended
\* from a response stored at an earlier time: on a later run that week is
\* requested from the remote again.
MovesOpenWeekFresh ==
    \A i \in MovesIdx :
        (/\ moves_log[i].t < WeekEnd(moves_log[i].year, moves_log[i].week)
         /\ moves_log[i].out = "cached") =>
            moves_log[i].ctime = moves_log[i].t

\* the responses the pass got from the remote
MovesFetched == {i \in MovesIdx : moves_log[i].out = "fetched"}

\* C24: a call of create_datafiles that meets the rate cap returns twice the
\* countdown of return_status when return_status was given and the call got
\* no response from the remote, and 60 otherwise.
MovesBackoff ==
    moves_result.kind = "countdown" =>
        moves_result.countdown =
            (IF return_status # NoStatus /\ MovesFetched = {}
             THEN 2 * return_status.countdown ELSE MOVES_COUNTDOWN)

\* the week that ends where week w of year y begins
PrecedingWeek(y, w) ==
    <<YearOf(WeekStart(y, w) - 1), WeekNumber(WeekStart(y, w) - 1)>>

\* the weeks of the pass that were answered with data, from the last visited
\* to the first
MovesDataIdx == {i \in MovesIdx : moves_log[i].out # "capped"
                                  /\ ~moves_log[i].value.error}

\* C25: get_full_storyline starts at the current week and goes from each week
\* to the week before it, leaving none out; only its last query can be
\* answered with an error or with the rate cap; all_data holds the data of
\* the weeks visited, the oldest first; and a call that met the rate cap
\* reports it and stores no file.
StorylineWalksBack ==
    /\ [](\A i \in MovesIdx :
            /\ i = 1 => /\ moves_log[i].year = YearOf(moves_log[i].t)
                        /\ moves_log[i].week = WeekNumber(moves_log[i].t)
            /\ i < Len(moves_log) =>
                  /\ <<moves_log[i + 1].year, moves_log[i + 1].week>> =
                         PrecedingWeek(moves_log[i].year, moves_log[i].week)
                  /\ i \in MovesDataIdx)
    /\ [](/\ Len(all_data) = Cardinality(MovesDataIdx)
          /\ \A i \in MovesDataIdx :
                all_data[Len(all_data) + 1 - i] = moves_log[i].value.days[1])
    /\ [][ (moves_pc = "loop" /\ moves_result'.kind = "countdown") =>
              /\ moves_log'[Len(moves_log')].out = "capped"
              /\ moves_file' = moves_file ]_vars

\* the items of the whole chain, in the order of the chain
RECURSIVE ChainItems(_, _)
ChainItems(pages, p) ==
    IF p > Len(pages) THEN << >>
    ELSE PageItems(pages, p) \o ChainItems(pages, p + 1)

\* C26: get_items called on any page of a chain requests every page of the
\* chain exactly once; it raises AssertionError exactly when the number of
\* items differs from the size reported, and returns otherwise the items of
\* all the pages, once each and in the order of the chain.
AllPagesOnceInOrder ==
    rk_out # NoItems =>
        /\ Len(rk_out.requested) = Len(rk_pages)
        /\ \A p \in 1..Len(rk_pages) :
              \E i \in 1..Len(rk_out.requested) : rk_out.requested[i] = p
        /\ rk_out.raised <=> SumOf(rk_pages) # rk_size
        /\ ~rk_out.raised => rk_out.items = ChainItems(rk_pages, 1)

\* C26 witness: a call on the middle page of a chain of three pages, each
\* with items, that returned
StartedInTheMiddle ==
    /\ Len(rk_pages) = 3
    /\ rk_path = 2
    /\ \A p \in 1..3 : rk_pages[p] > 0
    /\ Len(rk_out.requested) = 3
    /\ ~rk_out.raised

OpsIdx == 1..Len(ops)

\* C27: under either driver, after any number of countdowns, move_files runs
\* with one entry of temp_files for the file, moves it once and does not
\* fail; archive_files and update_open_humans are called after the file was
\* moved and not before; and a driver that is not local ends having called
\* move_files, archive_files and update_open_humans, in this order.
DriversEquivalent ==
    /\ cli_pc = "move" => Len(temp_files) = 1
    /\ cli_pc # "failed"
    /\ \A i \in OpsIdx :
          ops[i] \in {"archive", "update"} =>
              \E j \in 1..(i - 1) : ops[j] = "move"
    /\ cli_pc = "done" =>
          SelectSeq(ops, LAMBDA o : o \notin {"countdown", "create"}) =
              (IF local THEN <<"move">> ELSE <<"move", "archive", "update">>)

\* the account ids the profile query of the pass has returned
ResolvedIds ==
    {passlog[i].value.acct :
       i \in {j \in LogIdx : /\ passlog[j].phase = "profile"
                             /\ passlog[j].out \in {"fetched", "cached"}}}

\* C28: a merged output carries the account id its pass has resolved, every
\* yearly and monthly payload in it is a payload of that account, and every
\* cached response the pass has merged is one of that account.
IdentityPure ==
    result.kind = "merged" =>
        /\ ResolvedIds = {outfile.profile.encodedId}
        /\ \A k \in DOMAIN outfile.data :
              k[1] \in UrlNames("year") \cup UrlNames("month") =>
                  outfile.data[k].acct = outfile.profile.encodedId
        /\ \A i \in LogIdx :
              passlog[i].out = "cached" =>
                  /\ passlog[i].value.acct = outfile.profile.encodedId
                  /\ passlog[i].key.uid = outfile.profile.encodedId

\* a merged output of one account, while the output before it was of the
\* other account and the cache holds a response of that other account for a
\* partition of the output
MergedAfterAccountChange ==
    /\ result.kind = "merged"
    /\ archived.exists
    /\ archived.profile.encodedId \notin {"", outfile.profile.encodedId}
    /\ \E e \in cache : \E k \in DOMAIN outfile.data :
          /\ e.key.name = k[1]
          /\ e.key.pk = k[2]
          /\ e.response.acct = archived.profile.encodedId

\* create_files has loaded the stored output and no query was merged yet:
\* fitbit_data holds what load_existing_fitbit_data carries forward
JustLoaded ==
    /\ phase = "profile"
    /\ loaded = "ok"
    /\ files.exists

\* C29: the guessed storage date of the stored output is not after the time
\* the output was produced; every partition load_existing_fitbit_data
\* carries forward has a payload obtained from the remote at least
\* STORAGE_MIN - CACHE_MAX after the end of its period; and no partition
\* whose period ended less than STORAGE_MIN before the guessed storage date
\* is carried forward.
TrustedOnlyWhenOldEnough ==
    /\ files.exists => GuessStorageDate(files.data) <= prov.at
    /\ JustLoaded =>
          \A k \in DOMAIN fitbit_data.data :
              /\ prov.cur[k] >= PeriodCeil(k[2]) + STORAGE_MIN - CACHE_MAX
              /\ GuessStorageDate(files.data) - PeriodCeil(k[2]) >= STORAGE_MIN

\* the stored output was loaded, a partition of it is carried forward whose
\* payload is older than the output, and another partition of it is not
CarriedOlderThanOutput ==
    /\ JustLoaded
    /\ \E k \in DOMAIN fitbit_data.data : prov.cur[k] < prov.at
    /\ DOMAIN files.data \ DOMAIN fitbit_data.data # {}

\* the keys of the table
CachedKeys == {e.key : e \in cache}

\* C30: a step that deletes rows of the cache table deletes only rows older
\* than CACHE_MAX, and leaves for every key the answer of fitbit_query's
\* cache test, and the entry it returns, as they were.
SweepIsInvisible ==
    [][cache' # cache /\ cache' \subseteq cache =>
          /\ \A e \in cache \ cache' : now - e.request_time > CACHE_MAX
          /\ \A key \in CachedKeys :
                /\ Hit(key, PeriodCeil(key.pk))' = Hit(key, PeriodCeil(key.pk))
                /\ Hit(key, PeriodCeil(key.pk)) => Newest(key)' = Newest(key)
      ]_vars

\* in the middle of a pass, the response of an earlier request of the
\* member's sync, which was stored, is in the table no more
SweptDuringPass ==
    /\ phase \in QueryPhases
    /\ \E key \in DOMAIN lastFetch :
          /\ key.pk # NoPeriod
          /\ ShouldCache(PeriodCeil(key.pk), lastFetch[key])
          /\ Entries(key) = {}

====
